---- MODULE Spec2Model ----
(***************************************************************************)
(* Stage 1 of the compound curation pipeline                               *)
(* (curated_compound_swiss_target.ipynb): input validation (Cell 2), the   *)
(* PubChem resolver get_cid_and_smiles (Cell 3), the batch loop (Cell 4)   *)
(* and quality control (Cell 5).                                           *)
(*                                                                         *)
(* Python strings are sequences of one-character strings.  A Python value  *)
(* is a record [t, s, n]: t is the type tag ("none", "nan", "str", "int"), *)
(* s the text of a str and n the value of an int.                          *)
(***************************************************************************)
EXTENDS Naturals, Sequences, FiniteSets

\* ------------------------------------------------------------ bounds
\* Largest number of data rows of an input table.
MaxRows == 2

\* Longest raw compound name built from RawAlphabet.
MaxLen == 3

\* ------------------------------------------------------------ Python values
PyNone == [t |-> "none", s |-> <<>>, n |-> 0]

PyNaN == [t |-> "nan", s |-> <<>>, n |-> 0]

PyStr(s) == [t |-> "str", s |-> s, n |-> 0]

PyInt(n) == [t |-> "int", s |-> <<>>, n |-> n]

\* Characters str.strip() removes.
Whitespace == {" "}

\* str.lstrip()
RECURSIVE LStrip(_)
LStrip(s) ==
  IF s # <<>> /\ Head(s) \in Whitespace THEN LStrip(Tail(s)) ELSE s

\* str.rstrip()
RECURSIVE RStrip(_)
RStrip(s) ==
  IF s # <<>> /\ s[Len(s)] \in Whitespace
  THEN RStrip(SubSeq(s, 1, Len(s) - 1))
  ELSE s

\* Mutant of Strip: only leading whitespace is removed.
LStripOnly(s) == LStrip(s)

\* str.strip()
Strip(s) == RStrip(LStrip(s))

\* s.replace(ch, rep) for a one-character ch
RECURSIVE Replace(_, _, _)
Replace(s, ch, rep) ==
  IF s = <<>> THEN <<>>
  ELSE (IF Head(s) = ch THEN rep ELSE <<Head(s)>>) \o Replace(Tail(s), ch, rep)

\* needle in s (substring test), as `'Success' in status` and str.contains
Contains(s, needle) ==
  \E k \in 1..(Len(s) + 1) :
    /\ k + Len(needle) - 1 <= Len(s)
    /\ SubSeq(s, k, k + Len(needle) - 1) = needle

\* str(v): the text the orchestrator makes of a Name cell
PyToStr(v) ==
  CASE v.t = "str" -> v.s
    [] v.t = "nan" -> <<"n", "a", "n">>
    [] v.t = "none" -> <<"N", "o", "n", "e">>
    [] OTHER -> <<"0">>

\* list(dict.fromkeys(xs)): the first occurrence of each element, in order
RECURSIVE Dedup(_)
Dedup(xs) ==
  IF xs = <<>> THEN <<>>
  ELSE LET init == Dedup(SubSeq(xs, 1, Len(xs) - 1))
           last == xs[Len(xs)]
       IN  IF \E k \in 1..Len(init) : init[k] = last
           THEN init
           ELSE Append(init, last)

\* ------------------------------------------------------------ literals
alpha == <<"a", "l", "p", "h", "a">>

beta == <<"b", "e", "t", "a">>

gamma == <<"g", "a", "m", "m", "a">>

Success == <<"S", "u", "c", "c", "e", "s", "s">>

SuccessOriginal ==
  Success \o <<" ", "(", "O", "r", "i", "g", "i", "n", "a", "l", " ",
               "N", "a", "m", "e", ")">>

SuccessVariant ==
  Success \o <<" ", "(", "N", "a", "m", "e", " ",
               "V", "a", "r", "i", "a", "n", "t", ")">>

Failed == <<"F", "a", "i", "l", "e", "d">>

\* ------------------------------------------------------------ Name Normalizer
\* Mutant of AlphaName: only the alpha replacement is made.
AlphaNameAlphaOnly(original_name) == Replace(original_name, "α", alpha)

\* Mutant of AlphaName: the gamma replacement is left out.
AlphaNameNoGamma(original_name) ==
  Replace(Replace(original_name, "α", alpha), "β", beta)

\* original_name.replace('α','alpha').replace('β','beta').replace('γ','gamma')
AlphaName(original_name) ==
  Replace(Replace(Replace(original_name, "α", alpha), "β", beta), "γ", gamma)

\* Mutant of NamesToTry: the variant is listed even when it equals the name.
NamesToTryBoth(compound_name) ==
  LET original_name == Strip(compound_name)
  IN  <<original_name, AlphaName(original_name)>>

\* names_to_try of get_cid_and_smiles
NamesToTry(compound_name) ==
  LET original_name == Strip(compound_name)
  IN  Dedup(<<original_name, AlphaName(original_name)>>)

\* ------------------------------------------------------------ raw names
\* Characters of the raw names get_cid_and_smiles is called with.
RawAlphabet == {"α", "β", "γ", " ", "a"}

AlphaPinene == <<"a", "l", "p", "h", "a", "-", "P", "i", "n", "e", "n", "e">>

AlphaTocopherol == <<"α", "-", "T", "o", "c", "o", "p", "h", "e", "r", "o", "l">>

\* The arguments of get_cid_and_smiles: every string over RawAlphabet up to
\* MaxLen characters, and two names with a spelled-out and a Greek prefix.
RawNames ==
  UNION {[1..n -> RawAlphabet] : n \in 0..MaxLen}
    \cup {AlphaPinene, AlphaTocopherol}

\* ------------------------------------------------------------ input files
\* Name cells of the sample tables.
nGreek == PyStr(<<"α", "-", "T">>)

nPadded == PyStr(<<" ", "a", " ">>)

nPlain == PyStr(<<"a">>)

\* A sample input: its header and, per data row, the Name cell and the cell
\* of the other column (when the header has that column).
Sample(columns, names, others) ==
  [columns |-> columns, names |-> names, others |-> others]

\* A Name cell holding only whitespace.
nBlank == PyStr(<<" ">>)

\* A table whose first record has a whitespace-only Name cell.
BlankName ==
  Sample(<<"Name", "Formula">>,
         <<nBlank, nPlain, nPlain, nPlain>>,
         <<PyInt(1), PyInt(2), PyInt(3), PyInt(4)>>)

\* A table that names one compound in several rows.
RepeatedPlain ==
  Sample(<<"Name">>,
         <<nPlain, nPlain, nPadded, nPlain>>,
         <<PyNone, PyNone, PyNone, PyNone>>)

\* A table that names one compound with a Greek letter in several rows.
RepeatedGreek ==
  Sample(<<"Name">>,
         <<nGreek, nGreek, nGreek, nGreek>>,
         <<PyNone, PyNone, PyNone, PyNone>>)

Samples ==
  { Sample(<<"Name", "Formula">>,
           <<nGreek, nPadded, nPlain, nPlain>>,
           <<PyInt(1), PyInt(2), PyInt(3), PyInt(4)>>),
    Sample(<<"Name">>,
           <<nPlain, PyNaN, nPlain, nPadded>>,
           <<PyNone, PyNone, PyNone, PyNone>>),
    Sample(<<"Name", "Status">>,
           <<nPadded, nPlain, nPlain, nPlain>>,
           <<PyStr(Success), PyStr(<<"x">>), PyStr(Success), PyStr(<<"x">>)>>),
    Sample(<<"Formula">>,
           <<PyNone, PyNone, PyNone, PyNone>>,
           <<PyInt(1), PyInt(2), PyInt(3), PyInt(4)>>),
    RepeatedPlain,
    BlankName }

ColumnSet(columns) == { columns[k] : k \in 1..Len(columns) }

\* Row k of a sample: a function from the header's columns to cells.
SampleRow(sm, k) ==
  [c \in ColumnSet(sm.columns) |-> IF c = "Name" THEN sm.names[k] ELSE sm.others[k]]

\* The table pd.read_csv makes of the first n data rows of a sample.
Table(sm, n) ==
  [columns |-> sm.columns, rows |-> [k \in 1..n |-> SampleRow(sm, k)]]

\* pd.DataFrame()
EmptyFrame == [columns |-> <<>>, rows |-> <<>>]

\* What compound_data.csv can be: absent, unreadable, or a table.
InputFiles ==
  { [kind |-> "absent", table |-> EmptyFrame],
    [kind |-> "unreadable", table |-> EmptyFrame] }
  \cup { [kind |-> "table", table |-> Table(sm, n)] : sm \in Samples, n \in 0..MaxRows }

\* Mutant of Duplicates: no name is ever counted as repeated.
DuplicatesNone(rows) == 0

\* df_input['Name'].duplicated().sum()
Duplicates(rows) ==
  Cardinality({ k \in 1..Len(rows) :
                  \E j \in 1..(k - 1) : rows[j]["Name"] = rows[k]["Name"] })

\* ------------------------------------------------------------ PubChem
\* Exceptions urlopen()/read() raise: transport failure, timeout.
TransportErrors == {"URLError", "timeout"}

\* A reply to a request.  kind "exc": urlopen or read raised exc; "empty":
\* an empty body; "malformed": a body json.loads rejects; "nofields": JSON
\* without the expected keys; "json": JSON whose list is vals.
Reply(kind, exc, vals) == [kind |-> kind, exc |-> exc, vals |-> vals]

NoReply == Reply("pending", "", <<>>)

FailureReplies ==
  { Reply("exc", e, <<>>) : e \in TransportErrors }
  \cup { Reply("empty", "", <<>>), Reply("malformed", "", <<>>),
         Reply("nofields", "", <<>>), Reply("json", "", <<>>) }

\* What the name -> CID request can answer: IdentifierList.CID is vals.
CidReplies ==
  FailureReplies
  \cup { Reply("json", "", <<PyNone>>), Reply("json", "", <<PyInt(1)>>),
         Reply("json", "", <<PyInt(2), PyInt(1)>>) }

\* What the CID -> SMILES request can answer: vals are the SMILES values of
\* PropertyTable.Properties.
SmilesReplies ==
  FailureReplies
  \cup { Reply("json", "", <<v>>) :
           v \in {PyNone, PyStr(<<>>), PyStr(<<" ">>), PyStr(<<"C">>)} }

\* The exception a reply makes the resolver's statements raise, "" if none:
\* urlopen/read raise r.exc; json.loads(..)[..][..][0] raises on a malformed
\* body, missing keys or an empty list.
Raised(r) ==
  CASE r.kind = "exc" -> r.exc
    [] r.kind = "malformed" -> "JSONDecodeError"
    [] r.kind = "nofields" -> "KeyError"
    [] r.kind = "json" /\ r.vals = <<>> -> "IndexError"
    [] OTHER -> ""

\* Mutant of Caught: `except urllib.error.URLError`.
CaughtTransportOnly(exc) == exc \in TransportErrors

\* `except Exception`: every exception the lookups raise is an Exception.
Caught(exc) == TRUE

\* ------------------------------------------------------------ state
VARIABLES
  pc,               \* the notebook step to run next
  file,             \* compound_data.csv
  service,          \* the PubChem service: whether it is stable, what it answered
  df_input,         \* Cell 2
  log,              \* the lines write_log appended to curation_log.txt
  index,            \* rows of df_input already iterated
  results, success_count, failed_count, failed_compounds,   \* Cell 4
  has_results,      \* 'df_results' in locals()
  df_results,       \* Cell 4
  full_written, full_csv,      \* compounds_with_cid_smiles.csv
  df_clean, initial_count, final_count,                     \* Cell 5
  clean_written, clean_csv,    \* data_compounds_final_full.csv
  rpc,              \* position inside get_cid_and_smiles
  compound_name, names_to_try, i, cid_result, ret,          \* its frame
  inflight,         \* requests sent and not yet answered
  calls             \* requests of the current invocation, with their replies

orch == <<index, results, success_count, failed_count, failed_compounds>>

outputs ==
  <<has_results, df_results, full_written, full_csv, df_clean, initial_count,
    final_count, clean_written, clean_csv>>

frame == <<rpc, compound_name, names_to_try, i, cid_result, ret, inflight, calls>>

vars == <<pc, file, service, df_input, log, orch, outputs, frame>>

\* A log line: what write_log was called for, the name and the value in it.
Line(tag, text, val) == [tag |-> tag, text |-> text, val |-> val]

\* The tuple get_cid_and_smiles returns.
Result(cid, smiles, status) == [cid |-> cid, smiles |-> smiles, status |-> status]

NoResult == Result(PyNone, PyNone, <<>>)

\* Mutant of Call: a structure lookup is made for the identifier held before
\* the candidate's name lookup was answered.
CallStale(op, cand, arg, reply) ==
  [op |-> op, cand |-> cand, arg |-> IF op = "smiles" THEN cid_result ELSE arg,
   reply |-> reply]

\* A request: op is "cid" (by name) or "smiles" (by CID), cand the index of the
\* candidate it is made for, arg the name or the CID in the URL.
Call(op, cand, arg, reply) == [op |-> op, cand |-> cand, arg |-> arg, reply |-> reply]

Init ==
  /\ pc = "cell2"
  /\ file \in InputFiles
  /\ service = [stable |-> FALSE, answers |-> {}]
  /\ df_input = EmptyFrame
  /\ log = <<Line("started", <<>>, PyNone), Line("results_folder", <<>>, PyNone)>>
  /\ index = 0
  /\ results = <<>>
  /\ success_count = 0
  /\ failed_count = 0
  /\ failed_compounds = <<>>
  /\ has_results = FALSE
  /\ df_results = <<>>
  /\ full_written = FALSE
  /\ full_csv = <<>>
  /\ df_clean = <<>>
  /\ initial_count = 0
  /\ final_count = 0
  /\ clean_written = FALSE
  /\ clean_csv = <<>>
  /\ rpc = "idle"
  /\ compound_name = <<>>
  /\ names_to_try = <<>>
  /\ i = 0
  /\ cid_result = PyNone
  /\ ret = NoResult
  /\ inflight = {}
  /\ calls = <<>>

\* ------------------------------------------------------------ Cell 2
\* Mutant of OnCritical: the table read so far is kept.
KeepTable(t) == t

\* `df_input = pd.DataFrame()` of both except clauses: whatever was read (t)
\* is dropped.
OnCritical(t) == EmptyFrame

\* Read and validate the input file.
Cell2 ==
  /\ pc = "cell2"
  /\ pc' = "cell4"
  /\ LET t == file.table
         read == <<Line("read_ok", <<>>, PyNone),
                   Line("total", <<>>, PyInt(Len(t.rows))),
                   Line("columns", <<>>, PyInt(Len(t.columns)))>>
     IN  CASE file.kind = "absent" ->
                /\ log' = Append(log, Line("critical_not_found", <<>>, PyNone))
                /\ df_input' = OnCritical(t)
           [] file.kind = "unreadable" ->
                /\ log' = Append(log, Line("critical_error", <<>>, PyNone))
                /\ df_input' = OnCritical(t)
           [] file.kind = "table" /\ "Name" \notin ColumnSet(t.columns) ->
                /\ log' = log \o read \o <<Line("critical_error", <<>>, PyNone)>>
                /\ df_input' = OnCritical(t)
           [] OTHER ->
                /\ log' = log \o read \o
                            (IF Duplicates(t.rows) > 0
                             THEN <<Line("duplicates", <<>>, PyInt(Duplicates(t.rows)))>>
                             ELSE <<>>)
                /\ df_input' = t
  /\ UNCHANGED <<file, service, orch, outputs, frame>>

\* ------------------------------------------------------------ Cell 4
\* `if len(df_input) == 0`: nothing to process.
Cell4NoInput ==
  /\ pc = "cell4"
  /\ Len(df_input.rows) = 0
  /\ log' = Append(log, Line("no_input", <<>>, PyNone))
  /\ pc' = "cell5"
  /\ UNCHANGED <<file, service, df_input, orch, outputs, frame>>

\* The else branch up to the loop: counters and the result list are reset.
Cell4Start ==
  /\ pc = "cell4"
  /\ Len(df_input.rows) # 0
  /\ success_count' = 0
  /\ failed_count' = 0
  /\ failed_compounds' = <<>>
  /\ results' = <<>>
  /\ index' = 0
  /\ log' = Append(log, Line("starting", <<>>, PyInt(Len(df_input.rows))))
  /\ pc' = "loop"
  /\ UNCHANGED <<file, service, df_input, outputs, frame>>

\* Mutant of MoreRows: the loop breaks at the first failed record.
MoreRowsUntilFailure == index < Len(df_input.rows) /\ failed_count = 0

\* `for index, row in df_input.iterrows()`: a row is left to iterate.
MoreRows == index < Len(df_input.rows)

\* One iteration starts: the name is read and get_cid_and_smiles is entered,
\* which builds its candidate list.
ProcessRow ==
  /\ pc = "loop"
  /\ MoreRows
  /\ \E name \in {Strip(PyToStr(df_input.rows[index + 1]["Name"]))} :
       /\ compound_name' = name
       /\ log' = Append(log, Line("processing", name, PyInt(index + 1)))
       /\ names_to_try' = NamesToTry(name)
  /\ i' = 0
  /\ rpc' = "for"
  /\ calls' = <<>>
  /\ pc' = "call"
  /\ UNCHANGED <<file, service, df_input, orch, outputs, cid_result, ret, inflight>>

\* ------------------------------------------------------------ Cell 3
\* Mutant of name_attempt: the first lookup of a record asks for the name of
\* the record before it.
name_attempt_carried ==
  IF i = 0 /\ results # <<>>
  THEN results[Len(results)]["Name"].s
  ELSE names_to_try[i + 1]

\* Mutant of name_attempt: the list is gone through from its end.
name_attempt_reversed == names_to_try[Len(names_to_try) - i]

\* The candidate of the current iteration of `for i, name_attempt in ...`.
name_attempt == names_to_try[i + 1]

\* A stable service answers a request it has answered before the same way; any
\* other request is answered in any of the ways `all`.
Replies(op, arg, all) ==
  LET before == {a \in service.answers : a.op = op /\ a.arg = arg}
  IN  IF service.stable /\ before # {} THEN {a.reply : a \in before} ELSE all

\* The service after answering: a stable one is bound by the answer.
Remember(op, arg, r) ==
  IF service.stable
  THEN [service EXCEPT !.answers = @ \cup {[op |-> op, arg |-> arg, reply |-> r]}]
  ELSE service

\* Mutant of Closed: the connection of an answered request stays open.
StillOpen(c) == inflight

\* The requests in flight once request c has ended: leaving the `with` block
\* closes its connection.
Closed(c) == inflight \ {c}

\* calls with the reply of the newest request filled in.
Answered(r) == [calls EXCEPT ![Len(calls)].reply = r]

\* The loop takes the next candidate: it is logged and looked up by name.
SearchCandidate ==
  /\ pc = "call"
  /\ rpc = "for"
  /\ i < Len(names_to_try)
  /\ log' = Append(log, Line("searching", name_attempt, PyNone))
  /\ inflight' = inflight \cup {Call("cid", i, PyStr(name_attempt), NoReply)}
  /\ calls' = Append(calls, Call("cid", i, PyStr(name_attempt), NoReply))
  /\ rpc' = "cid"
  /\ UNCHANGED <<pc, file, service, df_input, orch, outputs, compound_name, names_to_try,
                 i, cid_result, ret>>

\* The loop is exhausted: (None, None, 'Failed').
AllFailed ==
  /\ pc = "call"
  /\ rpc = "for"
  /\ i >= Len(names_to_try)
  /\ log' = Append(log, Line("all_failed", Strip(compound_name), PyNone))
  /\ ret' = Result(PyNone, PyNone, Failed)
  /\ rpc' = "returned"
  /\ UNCHANGED <<pc, file, service, df_input, orch, outputs, compound_name, names_to_try,
                 i, cid_result, inflight, calls>>

\* Mutant of Except: the handler tries the same candidate again.
ExceptRetry(exc) ==
  /\ log' = Append(log, Line("failed_for", name_attempt, PyNone))
  /\ i' = i
  /\ rpc' = "for"
  /\ pc' = pc

\* Mutant of Except: the handler gives the record up.
ExceptGiveUp(exc) ==
  /\ log' = Append(log, Line("failed_for", name_attempt, PyNone))
  /\ i' = Len(names_to_try)
  /\ rpc' = "for"
  /\ pc' = pc

\* An exception raised inside the try block: the handler logs it and the loop
\* continues; an exception the handler does not catch leaves the function.
Except(exc) ==
  IF Caught(exc)
  THEN /\ log' = Append(log, Line("failed_for", name_attempt, PyNone))
       /\ i' = i + 1
       /\ rpc' = "for"
       /\ pc' = pc
  ELSE /\ log' = log
       /\ i' = i
       /\ rpc' = "raised"
       /\ pc' = "crashed"

\* Mutant of FirstCid: the last identifier of the list is taken.
LastCid(vals) == vals[Len(vals)]

\* json.loads(cid_reply)['IdentifierList']['CID'][0]
FirstCid(vals) == vals[1]

\* The name request ends (answer, error or timeout).  An empty body continues
\* with the next candidate; otherwise the first CID of the list is taken, logged
\* and looked up.
CidReply ==
  /\ pc = "call"
  /\ rpc = "cid"
  /\ \E r \in Replies("cid", PyStr(name_attempt), CidReplies) :
       /\ service' = Remember("cid", PyStr(name_attempt), r)
       /\ IF Raised(r) # ""
          THEN /\ Except(Raised(r))
               /\ calls' = Answered(r)
               /\ inflight' = Closed(Call("cid", i, PyStr(name_attempt), NoReply))
               /\ UNCHANGED cid_result
          ELSE IF r.kind = "empty"
          THEN /\ i' = i + 1
               /\ rpc' = "for"
               /\ calls' = Answered(r)
               /\ inflight' = Closed(Call("cid", i, PyStr(name_attempt), NoReply))
               /\ UNCHANGED <<pc, log, cid_result>>
          ELSE /\ cid_result' = FirstCid(r.vals)
               /\ log' = Append(log, Line("found_cid", <<>>, FirstCid(r.vals)))
               /\ rpc' = "smiles"
               /\ calls' = Append(Answered(r), Call("smiles", i, FirstCid(r.vals), NoReply))
               /\ inflight' = Closed(Call("cid", i, PyStr(name_attempt), NoReply))
                                \cup {Call("smiles", i, FirstCid(r.vals), NoReply)}
               /\ UNCHANGED <<pc, i>>
  /\ UNCHANGED <<file, df_input, orch, outputs, compound_name, names_to_try, ret>>

\* Mutant of StatusResult: the status depends on the row being processed.
StatusByIndex(k) == IF index = 0 THEN SuccessOriginal ELSE SuccessVariant

\* Mutant of StatusResult: every success is reported as one of the variant.
StatusVariantAlways(k) == SuccessVariant

\* 'Success (Original Name)' if i == 0 else 'Success (Name Variant)'
StatusResult(k) == IF k = 0 THEN SuccessOriginal ELSE SuccessVariant

\* The SMILES request ends.  An empty body falls out of the try block and the
\* loop goes on; otherwise the SMILES of the first property entry is returned
\* with the CID and the status.
SmilesReply ==
  /\ pc = "call"
  /\ rpc = "smiles"
  /\ \E r \in Replies("smiles", cid_result, SmilesReplies) :
       /\ service' = Remember("smiles", cid_result, r)
       /\ calls' = Answered(r)
       /\ inflight' = Closed(Call("smiles", i, cid_result, NoReply))
       /\ IF Raised(r) # ""
          THEN /\ Except(Raised(r))
               /\ UNCHANGED ret
          ELSE IF r.kind = "empty"
          THEN /\ i' = i + 1
               /\ rpc' = "for"
               /\ UNCHANGED <<pc, log, ret>>
          ELSE /\ log' = Append(log, Line("success", <<>>, cid_result))
               /\ ret' = Result(cid_result, r.vals[1], StatusResult(i))
               /\ rpc' = "returned"
               /\ UNCHANGED <<pc, i>>
  /\ UNCHANGED <<file, df_input, orch, outputs, compound_name, names_to_try,
                 cid_result>>

\* ------------------------------------------------------------ Cell 4, loop body
\* The columns of a result row: the four resolution fields, then the input's.
ResultColumns == {"Name", "PubChem_CID", "Smiles", "Status"}

\* Mutant of ResultRow: the input's other columns are not copied.
ResultRowOnly(name, res, columns, row) ==
  [c \in ResultColumns |->
     CASE c = "Name" -> PyStr(name)
       [] c = "PubChem_CID" -> res.cid
       [] c = "Smiles" -> res.smiles
       [] OTHER -> PyStr(res.status)]

\* result_row: the resolution fields, then every input column but Name copied
\* over them.
ResultRow(name, res, columns, row) ==
  [c \in ResultColumns \cup ColumnSet(columns) |->
     IF c \in ColumnSet(columns) /\ c # "Name" THEN row[c]
     ELSE CASE c = "Name" -> PyStr(name)
            [] c = "PubChem_CID" -> res.cid
            [] c = "Smiles" -> res.smiles
            [] OTHER -> PyStr(res.status)]

\* Mutant of AppendRow: the list is replaced by the new row.
OnlyLastRow(rows, row) == <<row>>

\* Mutant of AppendRow: results.insert(0, result_row).
PrependRow(rows, row) == <<row>> \o rows

\* results.append(result_row)
AppendRow(rows, row) == Append(rows, row)

\* Mutant of AfterRow: the loop goes straight on to its next iteration.
AfterRowNoDelay == "loop"

\* Where the loop body goes after results.append(result_row): to time.sleep.
AfterRow == "sleep"

\* The resolver has returned: counters, result row, results.append.
RowDone ==
  /\ pc = "call"
  /\ rpc = "returned"
  /\ IF Contains(ret.status, Success)
     THEN /\ success_count' = success_count + 1
          /\ UNCHANGED <<failed_count, failed_compounds>>
     ELSE /\ failed_count' = failed_count + 1
          /\ failed_compounds' = Append(failed_compounds, compound_name)
          /\ UNCHANGED success_count
  /\ results' = AppendRow(results,
                  ResultRow(compound_name, ret, df_input.columns,
                            df_input.rows[index + 1]))
  /\ rpc' = "idle"
  /\ compound_name' = <<>>
  /\ names_to_try' = <<>>
  /\ i' = 0
  /\ cid_result' = PyNone
  /\ ret' = NoResult
  /\ calls' = <<>>
  /\ pc' = AfterRow
  /\ UNCHANGED <<file, service, df_input, log, index, outputs, inflight>>

\* time.sleep(0.5), then the next row.
Sleep ==
  /\ pc = "sleep"
  /\ index' = index + 1
  /\ pc' = "loop"
  /\ UNCHANGED <<file, service, df_input, log, results, success_count, failed_count,
                 failed_compounds, outputs, frame>>

\* Success rate in tenths of a percent, as the summary's `:.1f` prints it.
Rate(k, n) == (2000 * k + n) \div (2 * n)

\* After the loop: df_results, the full-result file, the summary.
Cell4Finish ==
  /\ pc = "loop"
  /\ ~MoreRows
  /\ df_results' = results
  /\ has_results' = TRUE
  /\ full_csv' = results
  /\ full_written' = TRUE
  /\ log' = log
            \o <<Line("completed", <<>>, PyNone),
                 Line("sum_total", <<>>, PyInt(Len(df_input.rows))),
                 Line("sum_successful", <<>>, PyInt(success_count)),
                 Line("sum_failed", <<>>, PyInt(failed_count)),
                 Line("sum_rate", <<>>, PyInt(Rate(success_count, Len(df_input.rows))))>>
            \o (IF failed_compounds # <<>>
                THEN <<Line("failed_header", <<>>, PyNone)>>
                     \o [k \in 1..Len(failed_compounds) |->
                           Line("failed_name", failed_compounds[k], PyNone)]
                ELSE <<>>)
            \o <<Line("saved", <<>>, PyNone)>>
  /\ pc' = "cell5"
  /\ UNCHANGED <<file, service, df_input, orch, df_clean, initial_count, final_count,
                 clean_written, clean_csv, frame>>

\* ------------------------------------------------------------ Cell 5
\* pandas' missing value test (None and NaN), as dropna applies it.
IsNA(v) == v.t \in {"none", "nan"}

\* df_results['Status'].str.contains('Success', na=False), for one row
SuccessMask(row) ==
  row["Status"].t = "str" /\ Contains(row["Status"].s, Success)

\* Mutant of NotBlank: the comparison without .str.strip().
NotEmpty(row) ==
  row["Smiles"].t = "str" => row["Smiles"].s # <<>>

\* df_clean['Smiles'].str.strip() != '', for one row: a value that is no str
\* strips to NaN, which differs from ''.
NotBlank(row) ==
  row["Smiles"].t = "str" => Strip(row["Smiles"].s) # <<>>

\* Mutant of HasSmiles: dropna left out.
KeepMissing(row) == TRUE

\* dropna(subset=['Smiles']), for one row
HasSmiles(row) == ~IsNA(row["Smiles"])

\* The three filters of Cell 5, in order.
QualityFilter(rows) ==
  SelectSeq(SelectSeq(SelectSeq(rows, SuccessMask), HasSmiles), NotBlank)

\* Quality control over df_results, or the message that there is nothing to do.
\* df_results and success_count are whatever the session holds under these
\* names.  `final_count/len(df_input)` of the last statistics line raises
\* ZeroDivisionError when df_input has no rows: the cell stops there, after the
\* lines before it were written.
Cell5 ==
  /\ pc = "cell5"
  /\ IF has_results /\ Len(df_results) > 0
     THEN LET successful == SelectSeq(df_results, SuccessMask)
              clean == QualityFilter(df_results)
          IN  /\ initial_count' = Len(successful)
              /\ final_count' = Len(clean)
              /\ df_clean' = clean
              /\ clean_csv' = clean
              /\ clean_written' = TRUE
              /\ log' = log
                   \o <<Line("quality_control", <<>>, PyNone),
                        Line("qc_results", <<>>, PyNone),
                        Line("qc_initial", <<>>, PyInt(Len(successful))),
                        Line("qc_removed", <<>>, PyInt(Len(successful) - Len(clean))),
                        Line("qc_final", <<>>, PyInt(Len(clean))),
                        Line("clean_saved", <<>>, PyNone),
                        Line("ready", <<>>, PyNone),
                        Line("final_statistics", <<>>, PyNone),
                        Line("fin_original", <<>>, PyInt(Len(df_input.rows))),
                        Line("fin_processed", <<>>, PyInt(success_count)),
                        Line("fin_ready", <<>>, PyInt(Len(clean)))>>
                   \o (IF Len(df_input.rows) = 0
                       THEN <<>>
                       ELSE <<Line("fin_rate", <<>>,
                                   PyInt(Rate(Len(clean), Len(df_input.rows))))>>)
              /\ pc' = IF Len(df_input.rows) = 0 THEN "crashed" ELSE "end"
     ELSE /\ log' = Append(log, Line("no_results", <<>>, PyNone))
          /\ pc' = "end"
          /\ UNCHANGED <<df_clean, initial_count, final_count, clean_written,
                         clean_csv>>
  /\ UNCHANGED <<file, service, df_input, orch, has_results, df_results, full_written,
                 full_csv, frame>>

\* ------------------------------------------------------------ specification
Next ==
  \/ Cell2
  \/ Cell4NoInput
  \/ Cell4Start
  \/ ProcessRow
  \/ SearchCandidate
  \/ AllFailed
  \/ CidReply
  \/ SmilesReply
  \/ RowDone
  \/ Sleep
  \/ Cell4Finish
  \/ Cell5

Spec == Init /\ [][Next]_vars

\* The notebook's statements are executed one after the other, and every
\* request ends, with an answer, an error or the 20 s timeout.
SpecLive == Spec /\ WF_vars(Next)

\* ------------------------------------------------------------ a session run again
\* The input files whose validation fails or that hold no record.
RejectedFiles ==
  { f \in InputFiles : \/ f.kind # "table"
                       \/ "Name" \notin ColumnSet(f.table.columns)
                       \/ Len(f.table.rows) = 0 }

\* After a run that wrote its full-result table, the cells are executed again
\* in the same session, on an input file that has been replaced.  Cell 1 makes
\* a new results folder with a new log holding its two lines; every variable
\* of the session (df_results, the counters, ...) keeps its value until a cell
\* assigns it.
Rerun ==
  /\ pc = "end"
  /\ full_written
  /\ file' \in RejectedFiles
  /\ log' = <<Line("started", <<>>, PyNone), Line("results_folder", <<>>, PyNone)>>
  /\ full_written' = FALSE
  /\ full_csv' = <<>>
  /\ clean_written' = FALSE
  /\ clean_csv' = <<>>
  /\ pc' = "cell2"
  /\ UNCHANGED <<service, df_input, orch, has_results, df_results, df_clean,
                 initial_count, final_count, frame>>

NextRerun ==
  \/ Next
  \/ Rerun

SpecRerun == Init /\ [][NextRerun]_vars

\* ------------------------------------------------------------ a stable service
\* The notebook run on a table that repeats a name, against a service that
\* answers each request the same way every time.
InitStable ==
  /\ pc = "cell2"
  /\ file \in { [kind |-> "table", table |-> Table(sm, n)] :
                   sm \in {RepeatedPlain, RepeatedGreek}, n \in 0..(MaxRows + 1) }
  /\ service = [stable |-> TRUE, answers |-> {}]
  /\ df_input = EmptyFrame
  /\ log = <<Line("started", <<>>, PyNone), Line("results_folder", <<>>, PyNone)>>
  /\ index = 0
  /\ results = <<>>
  /\ success_count = 0
  /\ failed_count = 0
  /\ failed_compounds = <<>>
  /\ has_results = FALSE
  /\ df_results = <<>>
  /\ full_written = FALSE
  /\ full_csv = <<>>
  /\ df_clean = <<>>
  /\ initial_count = 0
  /\ final_count = 0
  /\ clean_written = FALSE
  /\ clean_csv = <<>>
  /\ rpc = "idle"
  /\ compound_name = <<>>
  /\ names_to_try = <<>>
  /\ i = 0
  /\ cid_result = PyNone
  /\ ret = NoResult
  /\ inflight = {}
  /\ calls = <<>>

SpecStable == InitStable /\ [][Next]_vars

\* ------------------------------------------------------------ the Name Normalizer alone
\* get_cid_and_smiles is about to be called with any raw name.
InitNormalizer ==
  /\ pc = "entry"
  /\ file = [kind |-> "absent", table |-> EmptyFrame]
  /\ service = [stable |-> FALSE, answers |-> {}]
  /\ df_input = EmptyFrame
  /\ log = <<>>
  /\ index = 0
  /\ results = <<>>
  /\ success_count = 0
  /\ failed_count = 0
  /\ failed_compounds = <<>>
  /\ has_results = FALSE
  /\ df_results = <<>>
  /\ full_written = FALSE
  /\ full_csv = <<>>
  /\ df_clean = <<>>
  /\ initial_count = 0
  /\ final_count = 0
  /\ clean_written = FALSE
  /\ clean_csv = <<>>
  /\ rpc = "idle"
  /\ compound_name \in RawNames
  /\ names_to_try = <<>>
  /\ i = 0
  /\ cid_result = PyNone
  /\ ret = NoResult
  /\ inflight = {}
  /\ calls = <<>>

\* The function's first statements: the name is trimmed and the candidate
\* list is built.
BuildCandidates ==
  /\ pc = "entry"
  /\ rpc = "idle"
  /\ names_to_try' = NamesToTry(compound_name)
  /\ i' = 0
  /\ rpc' = "for"
  /\ UNCHANGED <<pc, file, service, df_input, log, orch, outputs, compound_name,
                 cid_result, ret, inflight, calls>>

NextNormalizer == BuildCandidates

SpecNormalizer == InitNormalizer /\ [][NextNormalizer]_vars

\* ------------------------------------------------------------ what the service answered
\* The current invocation has made request op for candidate k.
HasCall(op, k) ==
  \E a \in 1..Len(calls) : calls[a].op = op /\ calls[a].cand = k

\* The reply to request op of candidate k.
ReplyOf(op, k) ==
  calls[CHOOSE a \in 1..Len(calls) : calls[a].op = op /\ calls[a].cand = k].reply

\* The service answered request op of candidate k with a well-formed body
\* holding at least one value.
Answers(op, k) ==
  HasCall(op, k) /\ ReplyOf(op, k).kind = "json" /\ ReplyOf(op, k).vals # <<>>

\* The value the service returned for request op of candidate k.
ValueOf(op, k) == ReplyOf(op, k).vals[1]

\* Candidate k yields both an identifier and a structure: both lookups were
\* answered with a value that is not null.
Yields(k) ==
  /\ Answers("cid", k) /\ ValueOf("cid", k) # PyNone
  /\ Answers("smiles", k) /\ ValueOf("smiles", k) # PyNone

\* ------------------------------------------------------------ claims
\* C1: the tuple the Resolver returns has identifier null <=> structure null
\* <=> status Failed.  The code returns a success status with a null structure
\* or identifier when the service's JSON holds null there.
C1_NullIffFailed ==
  rpc = "returned" =>
    /\ (ret.cid = PyNone) <=> (ret.smiles = PyNone)
    /\ (ret.smiles = PyNone) <=> (ret.status = Failed)

\* C2: no lookup outcome makes the Resolver raise: a request that ends, however
\* it ends, leaves the invocation at the next candidate, at the structure
\* lookup or at its return, and an exhausted loop returns.
C2_NeverRaises ==
  [][/\ rpc \in {"cid", "smiles"} =>
          /\ rpc' \in {"for", "smiles", "returned"}
          /\ pc' = "call"
          /\ (rpc' = "for" => i' = i + 1)
     /\ (rpc = "for" /\ rpc' # "for") =>
          \/ rpc' = "cid"
          \/ rpc' = "returned" /\ ret' = Result(PyNone, PyNone, Failed)
     /\ rpc' # "raised"
     /\ pc' # "crashed"]_vars

\* C2 witness: an invocation returned after a transport error, a timeout, a
\* malformed body and an empty body.
C2_Witness ==
  /\ rpc = "returned"
  /\ \E a, b \in 1..Len(calls) :
       /\ calls[a].reply.kind = "exc" /\ calls[a].reply.exc = "timeout"
       /\ calls[b].reply.kind \in {"malformed", "empty"}
       /\ calls[a].cand # calls[b].cand

\* C3: when both lookups of the first candidate yield a value, the Resolver
\* returns SuccessOriginal with these two values, both non-null, and it returns
\* SuccessOriginal in no other case.  The code also returns SuccessOriginal
\* when the structure the service sent is null.
C3_SuccessOriginal ==
  rpc = "returned" =>
    /\ Yields(0) =>
         /\ ret = Result(ValueOf("cid", 0), ValueOf("smiles", 0), SuccessOriginal)
         /\ ret.cid # PyNone
         /\ ret.smiles # PyNone
    /\ ret.status = SuccessOriginal => Yields(0)

\* C4: a name whose original spelling does not yield both values and whose
\* variant does is returned as SuccessVariant with the variant's identifier and
\* structure.  The code returns SuccessOriginal without trying the variant when
\* the original's structure is null.
C4_SuccessVariant ==
  (rpc = "returned" /\ Len(names_to_try) = 2 /\ ~Yields(0)) =>
    /\ HasCall("cid", 1)
    /\ Yields(1) =>
         ret = Result(ValueOf("cid", 1), ValueOf("smiles", 1), SuccessVariant)

\* C5: when no candidate yields both an identifier and a structure the Resolver
\* returns (null, null, Failed).  The code returns a success status when a
\* candidate's structure is null.
C5_AllFailed ==
  (rpc = "returned" /\ \A k \in 0..(Len(names_to_try) - 1) : ~Yields(k)) =>
    ret = Result(PyNone, PyNone, Failed)

\* C6: a success status is returned only with a non-empty structure.  The code
\* returns success with the empty string, or null, the service sent.
C6_SuccessHasStructure ==
  (rpc = "returned" /\ Contains(ret.status, Success)) =>
    ret.smiles.t = "str" /\ ret.smiles.s # <<>>

\* The Name the batch works with for an input row: the text of its Name cell,
\* trimmed.
NameOf(row) == PyStr(Strip(PyToStr(row["Name"])))

\* Result row `out` belongs to input row `row`: same name, and every other
\* input column carried with the input's value.
RowFor(out, row) ==
  /\ out["Name"] = NameOf(row)
  /\ \A c \in (DOMAIN row) \ {"Name"} : c \in DOMAIN out /\ out[c] = row[c]

\* C7: order preservation: row k of the result list, and of the full-result
\* table once written, is the result of input row k.
C7_OrderPreserved ==
  /\ Len(results) <= Len(df_input.rows)
  /\ \A k \in 1..Len(results) : RowFor(results[k], df_input.rows[k])
  /\ full_written =>
       /\ Len(full_csv) = Len(df_input.rows)
       /\ \A k \in 1..Len(full_csv) : RowFor(full_csv[k], df_input.rows[k])

\* C7 witness: a two-row table with a pass-through column was written, the
\* first record failed and the second succeeded.
C7_Witness ==
  /\ pc = "end"
  /\ full_written
  /\ Len(full_csv) = 2
  /\ "Formula" \in DOMAIN full_csv[1]
  /\ full_csv[1]["Formula"] # full_csv[2]["Formula"]
  /\ full_csv[1]["Status"] = PyStr(Failed)
  /\ full_csv[2]["Status"] = PyStr(SuccessOriginal)

\* C8: a Failed record does not stop the batch: while the loop runs every row
\* before the current one has its result, and once the loop is over every
\* input record has been resolved and the full-result table holds one row per
\* input record.
C8_FailedDoesNotStop ==
  /\ pc \in {"loop", "call"} => Len(results) = index
  /\ pc = "sleep" => Len(results) = index + 1
  /\ (pc \in {"cell5", "end"} /\ Len(df_input.rows) > 0) =>
       /\ index = Len(df_input.rows)
       /\ success_count + failed_count = Len(df_input.rows)
       /\ full_written
       /\ Len(full_csv) = Len(df_input.rows)

\* C8 witness: the batch completed with two rows after its first record failed.
C8_Witness ==
  /\ pc = "end"
  /\ Len(df_input.rows) = 2
  /\ Len(full_csv) = 2
  /\ full_csv[1]["Status"] = PyStr(Failed)
  /\ failed_compounds # <<>>
  /\ failed_compounds[1] = full_csv[1]["Name"].s

\* v is a null, empty or whitespace-only structure.
BlankStructure(v) ==
  \/ v.t \in {"none", "nan"}
  \/ v.t = "str" /\ \A k \in 1..Len(v.s) : v.s[k] \in Whitespace

\* C9: every row of the clean-result table is a row of the full-result table,
\* and none has a null, empty or whitespace-only structure.
C9_CleanSubset ==
  clean_written =>
    \A k \in 1..Len(clean_csv) :
      /\ \E j \in 1..Len(full_csv) : full_csv[j] = clean_csv[k]
      /\ ~BlankStructure(clean_csv[k]["Smiles"])

\* C9 witness: the clean table kept one of two successful rows; the other had a
\* whitespace-only structure.
C9_Witness ==
  /\ clean_written
  /\ Len(clean_csv) = 1
  /\ Len(full_csv) = 2
  /\ \E j \in 1..2 :
       /\ full_csv[j]["Smiles"] = PyStr(<<" ">>)
       /\ full_csv[j]["Status"] = PyStr(SuccessOriginal)

\* s starts with prefix.
StartsWith(s, prefix) ==
  Len(s) >= Len(prefix) /\ SubSeq(s, 1, Len(prefix)) = prefix

\* A full-result row the quality filter has to keep: a success status and a
\* structure that is not null and not whitespace-only.
Keep(row) ==
  /\ row["Status"].t = "str"
  /\ StartsWith(row["Status"].s, Success)
  /\ ~BlankStructure(row["Smiles"])

\* C10: the clean-result table is exactly the full-result rows with a success
\* status and a non-null, non-whitespace-only structure, in their order, and the
\* full result set is what it was before the filter ran.
C10_FilterExact ==
  clean_written =>
    /\ clean_csv = SelectSeq(full_csv, Keep)
    /\ df_clean = clean_csv
    /\ full_csv = results
    /\ df_results = results
    /\ Len(full_csv) = Len(df_input.rows)

\* C10 witness: the filter dropped a successful row with a null structure and a
\* Failed row, and both are still in the full-result table.
C10_Witness ==
  /\ clean_written
  /\ Len(full_csv) = 2
  /\ clean_csv = <<>>
  /\ full_csv[1]["Status"] = PyStr(SuccessVariant)
  /\ full_csv[1]["Smiles"] = PyNone
  /\ full_csv[2]["Status"] = PyStr(Failed)

\* Row `out` carries every column of input row `row` but Name, unchanged.
Carries(out, row) ==
  \A c \in (DOMAIN row) \ {"Name"} : c \in DOMAIN out /\ out[c] = row[c]

\* C11: every row of the full-result table carries the pass-through fields of
\* its input record unchanged, and every row of the clean-result table is the
\* full-result row of an input record whose pass-through fields it carries,
\* whatever the input's columns are called.
C11_PassThrough ==
  /\ full_written =>
       \A k \in 1..Len(full_csv) : Carries(full_csv[k], df_input.rows[k])
  /\ clean_written =>
       \A j \in 1..Len(clean_csv) :
         \E k \in 1..Len(full_csv) :
           /\ clean_csv[j] = full_csv[k]
           /\ Carries(clean_csv[j], df_input.rows[k])

\* C11 witness: the clean table holds the row of the second input record only,
\* with that record's Formula.
C11_Witness ==
  /\ clean_written
  /\ Len(full_csv) = 2
  /\ Len(clean_csv) = 1
  /\ "Formula" \in DOMAIN clean_csv[1]
  /\ clean_csv[1]["Formula"] = df_input.rows[2]["Formula"]
  /\ clean_csv[1]["Formula"] # df_input.rows[1]["Formula"]

\* ------------------------------------------------------------ the candidate list
\* get_cid_and_smiles has built the candidate list of the raw name.
Normalized == pc = "entry" /\ rpc = "for"

\* t is s without its leading and trailing whitespace: s is t between two runs
\* of whitespace, and t neither starts nor ends with whitespace.
IsTrimOf(t, s) ==
  /\ \E a \in 0..Len(s) :
       /\ a + Len(t) <= Len(s)
       /\ SubSeq(s, a + 1, a + Len(t)) = t
       /\ \A k \in 1..a : s[k] \in Whitespace
       /\ \A k \in (a + Len(t) + 1)..Len(s) : s[k] \in Whitespace
  /\ t # <<>> => t[1] \notin Whitespace /\ t[Len(t)] \notin Whitespace

\* The trimmed name, found among the substrings of s.
Trimmed(s) ==
  CHOOSE t \in {SubSeq(s, a, b) : a \in 1..(Len(s) + 1), b \in 0..Len(s)} :
    IsTrimOf(t, s)

\* What one character of the name becomes in the variant.
Spelled(ch) ==
  CASE ch = "α" -> alpha
    [] ch = "β" -> beta
    [] ch = "γ" -> gamma
    [] OTHER -> <<ch>>

\* The name with each character spelled out, in place and order.
RECURSIVE Expanded(_)
Expanded(t) ==
  IF t = <<>> THEN <<>> ELSE Spelled(Head(t)) \o Expanded(Tail(t))

\* C12: for every raw name the candidate list is non-empty, its first element
\* is the trimmed original name, and no candidate occurs in it twice.
C12_CandidatesWellFormed ==
  Normalized =>
    /\ Len(names_to_try) >= 1
    /\ IsTrimOf(names_to_try[1], compound_name)
    /\ \A a, b \in 1..Len(names_to_try) :
         names_to_try[a] = names_to_try[b] => a = b

\* C12 witness: a raw name with whitespace on both sides of one letter has
\* the single candidate "a".
C12_Witness ==
  /\ Normalized
  /\ compound_name = <<" ", "a", " ">>
  /\ names_to_try = <<<<"a">>>>

\* C13: the candidate list is the trimmed original followed by the normalized
\* variant, the variant being left out exactly when it equals the trimmed
\* original; 'alpha-Pinene' has one candidate, and 'α-Tocopherol' has itself
\* and 'alpha-Tocopherol'.
C13_CandidateList ==
  Normalized =>
    LET t == Trimmed(compound_name)
    IN  /\ names_to_try = IF AlphaName(t) = t THEN <<t>> ELSE <<t, AlphaName(t)>>
        /\ Len(names_to_try) = 1 <=>
             \A k \in 1..Len(t) : t[k] \notin {"α", "β", "γ"}
        /\ compound_name = AlphaPinene => names_to_try = <<AlphaPinene>>
        /\ compound_name = AlphaTocopherol =>
             names_to_try =
               <<AlphaTocopherol,
                 <<"a", "l", "p", "h", "a", "-", "T", "o", "c", "o", "p", "h",
                   "e", "r", "o", "l">> >>

\* C13 witness: 'α-Tocopherol' has been given its two candidates.
C13_Witness ==
  /\ Normalized
  /\ compound_name = AlphaTocopherol
  /\ Len(names_to_try) = 2
  /\ SubSeq(names_to_try[2], 1, 6) = <<"a", "l", "p", "h", "a", "-">>

\* C14: the normalized variant is the trimmed name with every α, β and γ
\* replaced by 'alpha', 'beta' and 'gamma', every other character staying
\* where it was.
C14_VariantSpelledOut ==
  Normalized =>
    LET t == Trimmed(compound_name)
    IN  /\ AlphaName(t) = Expanded(t)
        /\ names_to_try[Len(names_to_try)] = Expanded(t)

\* C14 witness: a name with a repeated and a trailing Greek letter.
C14_Witness ==
  /\ Normalized
  /\ compound_name = <<"γ", "a", "γ">>
  /\ names_to_try = <<<<"γ", "a", "γ">>, gamma \o <<"a">> \o gamma>>

\* ------------------------------------------------------------ re-running the Resolver
\* C15: against a stable service the Resolver returns, for a name it was run on
\* before, the identifier, structure and status it returned then.
C15_Idempotent ==
  (service.stable /\ pc = "call" /\ rpc = "returned") =>
    \A k \in 1..Len(results) :
      results[k]["Name"] = PyStr(compound_name) =>
        /\ results[k]["PubChem_CID"] = ret.cid
        /\ results[k]["Smiles"] = ret.smiles
        /\ results[k]["Status"] = PyStr(ret.status)

\* C15 witness: the Resolver is run a second time on a Greek name, asks the
\* service about both candidates again and succeeds by the variant as before.
C15_Witness ==
  /\ service.stable
  /\ pc = "call"
  /\ rpc = "returned"
  /\ Len(results) = 1
  /\ results[1]["Name"] = PyStr(compound_name)
  /\ Len(names_to_try) = 2
  /\ HasCall("cid", 0)
  /\ HasCall("smiles", 1)
  /\ ret.status = SuccessVariant
  /\ results[1]["Status"] = PyStr(SuccessVariant)

\* ------------------------------------------------------------ the log
\* The log has a line written for `tag`.
Logged(tag) == \E k \in 1..Len(log) : log[k].tag = tag

\* The number of log lines written for `tag`.
TimesLogged(tag) == Cardinality({k \in 1..Len(log) : log[k].tag = tag})

\* The input file is a readable table with a Name column and n records.
ValidTable(n) ==
  /\ file.kind = "table"
  /\ "Name" \in ColumnSet(file.table.columns)
  /\ Len(file.table.rows) = n

\* C16: for an input table with zero records the batch short-circuits, the
\* Resolver is never invoked (no candidate is searched, no request is made),
\* and the run summary reports total = 0.
C16_EmptyTable ==
  ValidTable(0) =>
    /\ rpc = "idle" /\ calls = <<>> /\ inflight = {}
    /\ ~Logged("searching")
    /\ pc = "end" =>
         \E k \in 1..Len(log) : log[k].tag = "sum_total" /\ log[k].val = PyInt(0)

\* The input file violates the input contract: it is absent, unreadable, or a
\* table without a Name column.
ContractViolated == ~(file.kind = "table" /\ "Name" \in ColumnSet(file.table.columns))

\* C17: when the input contract is violated, Cell 2 reports it once, the batch
\* does not proceed (no record is iterated, the Resolver is not invoked), and
\* neither the full-result nor the clean-result table is produced.
C17_ContractViolation ==
  (ContractViolated /\ pc # "cell2") =>
    /\ TimesLogged("critical_not_found") + TimesLogged("critical_error") = 1
    /\ Len(df_input.rows) = 0
    /\ pc \in {"cell4", "cell5", "end"}
    /\ ~Logged("starting") /\ ~Logged("processing") /\ ~Logged("searching")
    /\ rpc = "idle" /\ calls = <<>> /\ results = <<>>
    /\ ~full_written /\ ~clean_written /\ ~has_results
    /\ full_csv = <<>> /\ clean_csv = <<>>

\* C17 witness: the notebook has run to its end on a table of two records
\* that has no Name column.
C17_Witness ==
  /\ pc = "end"
  /\ file.kind = "table"
  /\ Len(file.table.rows) = 2
  /\ "Name" \notin ColumnSet(file.table.columns)
  /\ TimesLogged("critical_error") = 1
  /\ Logged("no_input")
  /\ ~full_written

\* ------------------------------------------------------------ counters and summary
\* The log has a line for `tag` and every such line carries the value v.
LoggedAs(tag, v) ==
  /\ Logged(tag)
  /\ \A k \in 1..Len(log) : log[k].tag = tag => log[k].val = v

\* The rows of a table whose status is a success status.
Succeeded(rows) ==
  {k \in 1..Len(rows) :
     rows[k]["Status"].t = "str" /\ StartsWith(rows[k]["Status"].s, Success)}

\* The rows of a table whose status is Failed.
FailedRows(rows) ==
  {k \in 1..Len(rows) : rows[k]["Status"] = PyStr(Failed)}

\* C18: at every point of the batch succeeded + failed is the number of result
\* rows accumulated so far, succeeded the number of them with a success status
\* and failed the number with status Failed; the run summary's success count and
\* rate are those of the full-result table, and the count of the clean table is
\* reported separately.
C18_CountersMatchRows ==
  /\ success_count + failed_count = Len(results)
  /\ success_count = Cardinality(Succeeded(results))
  /\ failed_count = Cardinality(FailedRows(results))
  /\ full_written =>
       /\ LoggedAs("sum_total", PyInt(Len(full_csv)))
       /\ LoggedAs("sum_successful", PyInt(Cardinality(Succeeded(full_csv))))
       /\ LoggedAs("sum_failed", PyInt(Cardinality(FailedRows(full_csv))))
       /\ LoggedAs("sum_rate",
                   PyInt(Rate(Cardinality(Succeeded(full_csv)), Len(full_csv))))
  /\ clean_written =>
       /\ LoggedAs("fin_processed", PyInt(Cardinality(Succeeded(full_csv))))
       /\ LoggedAs("qc_final", PyInt(Len(clean_csv)))
       /\ LoggedAs("fin_ready", PyInt(Len(clean_csv)))

\* ------------------------------------------------------------ the failed names
IsFailedName(line) == line.tag = "failed_name"

IsFailedRow(row) == row["Status"] = PyStr(Failed)

\* The names the end-of-run summary lists under 'Failed Compounds', in order.
ListedNames ==
  LET lines == SelectSeq(log, IsFailedName)
  IN  [k \in 1..Len(lines) |-> PyStr(lines[k].text)]

\* The names of the full-result rows whose status is Failed, in order.
FailedNames ==
  LET rows == SelectSeq(full_csv, IsFailedRow)
  IN  [k \in 1..Len(rows) |-> rows[k]["Name"]]

\* C19: the end-of-run summary lists exactly the names of the records whose
\* status is Failed, once per failed record and in input order.
C19_FailedNamesListed ==
  full_written => ListedNames = FailedNames

\* ------------------------------------------------------------ duplicate names
\* The number of input records named like record k (record k included).
Occurrences(k) ==
  Cardinality({j \in 1..Len(file.table.rows) :
                 file.table.rows[j]["Name"] = file.table.rows[k]["Name"]})

\* The number of Resolver invocations that searched `name` as their first
\* candidate.
Invocations(name) ==
  Cardinality({k \in 1..Len(log) :
                 log[k].tag = "searching" /\ PyStr(log[k].text) = name})

\* Some input records have the same name.
HasDuplicates == \E k \in 1..Len(file.table.rows) : Occurrences(k) > 1

\* C20: an input with duplicate names is accepted: Cell 2 logs one warning with
\* the number of repeated records and keeps the table, the batch runs, and at
\* its end every occurrence has had its own Resolver invocation and has its
\* own row in the full-result table.
C20_DuplicatesAccepted ==
  (ValidTable(Len(file.table.rows)) /\ HasDuplicates /\ pc # "cell2") =>
    /\ TimesLogged("duplicates") = 1
    /\ \E k \in 1..Len(log) :
         /\ log[k].tag = "duplicates"
         /\ log[k].val.n =
              Cardinality({j \in 1..Len(file.table.rows) :
                 \E h \in 1..(j - 1) :
                    file.table.rows[h]["Name"] = file.table.rows[j]["Name"]})
    /\ ~Logged("critical_error") /\ ~Logged("no_input")
    /\ df_input = file.table
    /\ pc \notin {"cell4", "crashed"} => Logged("starting")
    /\ pc \in {"cell5", "end"} =>
         /\ full_written
         /\ Len(full_csv) = Len(file.table.rows)
         /\ \A k \in 1..Len(full_csv) :
              /\ full_csv[k]["Name"] = NameOf(file.table.rows[k])
              /\ Invocations(NameOf(file.table.rows[k])) >= Occurrences(k)
         /\ TimesLogged("processing") = Len(file.table.rows)

\* C20 witness: the run has ended on a table that names one compound twice;
\* the first occurrence failed and the second was resolved.
C20_Witness ==
  /\ pc = "end"
  /\ ValidTable(2)
  /\ HasDuplicates
  /\ Logged("duplicates")
  /\ Len(full_csv) = 2
  /\ full_csv[1]["Name"] = full_csv[2]["Name"]
  /\ full_csv[1]["Status"] = PyStr(Failed)
  /\ full_csv[2]["Status"] = PyStr(SuccessOriginal)

\* ------------------------------------------------------------ identifier and structure
\* The invocation has returned a success status.
ReturnedSuccess == pc = "call" /\ rpc = "returned" /\ Contains(ret.status, Success)

\* Request a of the invocation is a structure lookup made for the identifier
\* that the request just before it, the name lookup of the same candidate,
\* returned.
PairedLookup(a) ==
  /\ a > 1
  /\ calls[a].op = "smiles"
  /\ calls[a - 1].op = "cid"
  /\ calls[a - 1].cand = calls[a].cand
  /\ calls[a - 1].reply.kind = "json"
  /\ calls[a - 1].reply.vals # <<>>
  /\ calls[a].arg = calls[a - 1].reply.vals[1]

\* C21: every structure lookup is made for the identifier the same candidate's
\* name lookup just returned, and a success result holds the identifier and the
\* structure of the last pair of lookups, both of the candidate that succeeded.
C21_SameCandidate ==
  /\ \A a \in 1..Len(calls) : calls[a].op = "smiles" => PairedLookup(a)
  /\ ReturnedSuccess =>
       /\ calls # <<>>
       /\ PairedLookup(Len(calls))
       /\ calls[Len(calls)].cand = i
       /\ calls[Len(calls)].arg = ret.cid
       /\ calls[Len(calls)].reply.kind = "json"
       /\ calls[Len(calls)].reply.vals # <<>>
       /\ calls[Len(calls)].reply.vals[1] = ret.smiles

\* C21 witness: the first candidate obtained identifier 1 and its structure
\* lookup failed; the variant obtained identifier 2 and succeeded with it.
C21_Witness ==
  /\ ReturnedSuccess
  /\ i = 1
  /\ Len(calls) = 4
  /\ calls[1].reply.vals = <<PyInt(1)>>
  /\ Raised(calls[2].reply) # ""
  /\ ret.cid = PyInt(2)
  /\ ret.smiles = PyStr(<<"C">>)

\* ------------------------------------------------------------ several identifiers
\* Request a is a name lookup the service answered with several identifiers.
SeveralFound(a) ==
  /\ calls[a].op = "cid"
  /\ calls[a].reply.kind = "json"
  /\ Len(calls[a].reply.vals) > 1

\* The structure lookups the invocation made for the candidate of request a.
StructureLookups(a) ==
  {b \in 1..Len(calls) : calls[b].op = "smiles" /\ calls[b].cand = calls[a].cand}

\* C22: when a name lookup returns several identifiers, the one structure
\* lookup of that candidate is made for the first of them, also after it
\* failed, and a success of that candidate returns the first of them.
C22_FirstIdentifier ==
  \A a \in 1..Len(calls) :
    SeveralFound(a) =>
      /\ Cardinality(StructureLookups(a)) <= 1
      /\ \A b \in StructureLookups(a) : calls[b].arg = calls[a].reply.vals[1]
      /\ (ReturnedSuccess /\ calls[a].cand = i) => ret.cid = calls[a].reply.vals[1]
      /\ (rpc \in {"for", "returned"} /\ pc = "call") =>
           Cardinality(StructureLookups(a)) = 1

\* C22 witness: the name lookup of the only candidate returned [2, 1], the
\* structure lookup for 2 failed, and the record ended Failed without a lookup
\* for 1.
C22_Witness ==
  /\ pc = "call"
  /\ rpc = "returned"
  /\ ret.status = Failed
  /\ Len(calls) = 2
  /\ calls[1].reply.vals = <<PyInt(2), PyInt(1)>>
  /\ calls[2].arg = PyInt(2)
  /\ Raised(calls[2].reply) # ""

\* ------------------------------------------------------------ recovery per candidate
\* A lookup of the invocation is awaiting its reply.
Awaiting == pc = "call" /\ rpc \in {"cid", "smiles"}

\* The step ends the awaited lookup without a result: its reply was an error,
\* a timeout, an empty or a malformed body.
LookupFails == Awaiting /\ rpc' \notin {"smiles", "returned"}

\* C23: a lookup that fails at either step makes the Resolver go on to the next
\* candidate, which gets a fresh name lookup; Failed is returned only when every
\* candidate has had its name lookup.
C23_NextCandidate ==
  /\ [][/\ LookupFails => (pc' = "call" /\ rpc' = "for" /\ i' = i + 1)
        /\ (pc = "call" /\ rpc = "for" /\ i < Len(names_to_try)) =>
             /\ rpc' = "cid"
             /\ i' = i
             /\ Len(calls') = Len(calls) + 1
             /\ calls'[Len(calls')].op = "cid"
             /\ calls'[Len(calls')].cand = i
             /\ calls'[Len(calls')].arg = PyStr(names_to_try[i + 1])
             /\ calls'[Len(calls')].reply = NoReply]_vars
  /\ []((pc = "call" /\ rpc = "returned" /\ ret.status = Failed) =>
          \A k \in 1..Len(names_to_try) :
            \E a \in 1..Len(calls) :
              /\ calls[a].op = "cid"
              /\ calls[a].cand = k - 1
              /\ calls[a].arg = PyStr(names_to_try[k]))

\* C23 witness: the first candidate's name lookup found an identifier, its
\* structure lookup timed out, and the variant is being looked up by name.
C23_Witness ==
  /\ pc = "call"
  /\ rpc = "cid"
  /\ i = 1
  /\ Len(calls) = 3
  /\ calls[1].reply.vals # <<>>
  /\ calls[2].op = "smiles"
  /\ calls[2].reply.exc = "timeout"
  /\ calls[3].arg = PyStr(names_to_try[2])

\* ------------------------------------------------------------ order of the attempts
\* C24: the lookups of an invocation go through the candidates in list order,
\* starting with the original name and skipping none, each name lookup asking
\* for its own candidate; once a candidate has succeeded no lookup for a later
\* candidate exists and the next step issues none.
C24_InOrderShortCircuit ==
  /\ [](/\ calls # <<>> => calls[1].cand = 0 /\ calls[1].op = "cid"
        /\ \A a \in 1..Len(calls) :
             /\ calls[a].op = "cid" => calls[a].arg = PyStr(names_to_try[calls[a].cand + 1])
             /\ a < Len(calls) =>
                  \/ /\ calls[a + 1].cand = calls[a].cand
                     /\ calls[a].op = "cid" /\ calls[a + 1].op = "smiles"
                  \/ /\ calls[a + 1].cand = calls[a].cand + 1
                     /\ calls[a + 1].op = "cid"
        /\ ReturnedSuccess =>
             \A a \in 1..Len(calls) : calls[a].cand <= i)
  /\ [][ReturnedSuccess => (calls' = <<>> /\ rpc' = "idle" /\ inflight' = {})]_vars

\* C24 witness: a name with two candidates succeeded by its original spelling
\* after two lookups; the variant was never looked up.
C24_Witness ==
  /\ ReturnedSuccess
  /\ Len(names_to_try) = 2
  /\ i = 0
  /\ Len(calls) = 2
  /\ calls[1].arg = PyStr(names_to_try[1])
  /\ ret.status = SuccessOriginal

\* ------------------------------------------------------------ no retries
\* The requests of kind op the invocation has made so far.
Lookups(op) == {a \in 1..Len(calls) : calls[a].op = op}

\* C25: within one invocation each candidate spelling is looked up by name at
\* most once and gets at most one structure lookup, so there are at most two
\* lookups of each kind, and a structure lookup follows the same candidate's
\* name lookup that returned an identifier.
C25_NoRetries ==
  /\ \A a, b \in 1..Len(calls) :
       (calls[a].op = calls[b].op /\ calls[a].cand = calls[b].cand) => a = b
  /\ \A a, b \in Lookups("cid") : calls[a].arg = calls[b].arg => a = b
  /\ Cardinality(Lookups("cid")) <= 2
  /\ Cardinality(Lookups("smiles")) <= 2
  /\ \A a \in Lookups("smiles") : PairedLookup(a) /\ calls[a].arg = FirstCid(calls[a - 1].reply.vals)

\* C25 witness: an invocation that has made two name lookups and two structure
\* lookups and ended Failed.
C25_Witness ==
  /\ pc = "call"
  /\ rpc = "returned"
  /\ ret.status = Failed
  /\ Cardinality(Lookups("cid")) = 2
  /\ Cardinality(Lookups("smiles")) = 2

\* ------------------------------------------------------------ the delay
\* The step ends a Resolver invocation (its tuple is taken by the loop body).
InvocationEnds == rpc = "returned" /\ rpc' = "idle"

\* The step starts a Resolver invocation.
InvocationStarts == rpc = "idle" /\ rpc' = "for"

\* C26: between two Resolver invocations of a batch there is a delay step: an
\* invocation's end leads to the delay, the delay step issues no lookup and
\* leads to the loop head, and the loop head, where invocations start, is
\* entered from the delay or, with no result yet, from the start of the batch.
C26_DelayBetween ==
  [][/\ InvocationEnds => pc' = "sleep"
     /\ pc = "sleep" => (pc' = "loop" /\ rpc' = "idle" /\ calls' = calls /\ log' = log)
     /\ InvocationStarts => (pc = "loop" /\ Len(results) = index)
     /\ (pc # "loop" /\ pc' = "loop") =>
          (pc = "sleep" \/ (pc = "cell4" /\ results' = <<>> /\ index' = 0))]_vars

\* C26 witness: the delay after the first record is over and the second record
\* is about to be resolved.
C26_Witness ==
  /\ pc = "loop"
  /\ index = 1
  /\ Len(results) = 1
  /\ MoreRows
  /\ rpc = "idle"

\* ------------------------------------------------------------ one request at a time
\* C27: at most one external call is in flight; it is the newest request of the
\* invocation in progress, every earlier request has been answered, and outside
\* an invocation's lookups, in particular when the next record starts, none is
\* in flight.
C27_Sequential ==
  /\ Cardinality(inflight) <= 1
  /\ inflight # {} <=> (pc = "call" /\ rpc \in {"cid", "smiles"})
  /\ inflight # {} => (calls # <<>> /\ inflight = {calls[Len(calls)]})
  /\ \A a \in 1..Len(calls) :
       calls[a].reply = NoReply => (a = Len(calls) /\ calls[a] \in inflight)
  /\ pc \in {"loop", "sleep"} => (inflight = {} /\ calls = <<>>)

\* C27 witness: the first record is resolved and the structure lookup of the
\* second record is the one call in flight.
C27_Witness ==
  /\ pc = "call"
  /\ rpc = "smiles"
  /\ index = 1
  /\ Len(results) = 1
  /\ Cardinality(inflight) = 1
  /\ Len(calls) = 2

\* ------------------------------------------------------------ columns named like the result's
\* C28: whatever the input's columns are called, the identifier, structure and
\* status of the row appended for a record are the values the Resolver returned
\* for it, and the rows the quality filter takes for successes are as many as
\* the success counter counted.
C28_ResolutionFieldsKept ==
  /\ [][InvocationEnds =>
          LET row == results'[Len(results')]
          IN  /\ row["PubChem_CID"] = ret.cid
              /\ row["Smiles"] = ret.smiles
              /\ row["Status"] = PyStr(ret.status)]_vars
  /\ [](clean_written => initial_count = success_count)

\* ------------------------------------------------------------ the name passed on
\* C29: the name the Orchestrator has passed to the Resolver is a string that
\* is non-empty after trimming, for every input table that passed validation.
C29_NamePassedNonEmpty ==
  (pc = "call" /\ rpc # "idle") => Strip(compound_name) # <<>>

\* ------------------------------------------------------------ logging of the attempts
\* The last line of the log after the step, which the step has written.
Written(tag, text) ==
  /\ Len(log') = Len(log) + 1
  /\ log'[Len(log')].tag = tag
  /\ log'[Len(log')].text = text

\* C30: the step that issues a candidate's name lookup writes the line
\* announcing the candidate; a step that gives a candidate up (after an error
\* or an empty reply of either lookup) writes a failure line naming it; the
\* step that returns writes the success line or the line of the overall
\* failure.
C30_AttemptsLogged ==
  [][/\ (pc = "call" /\ rpc = "for" /\ rpc' = "cid") =>
          Written("searching", names_to_try[i + 1])
     /\ (pc = "call" /\ rpc \in {"cid", "smiles"} /\ i' = i + 1) =>
          Written("failed_for", names_to_try[i + 1])
     /\ (pc = "call" /\ rpc # "returned" /\ rpc' = "returned") =>
          \/ Contains(ret'.status, Success) /\ Written("success", <<>>)
          \/ ret'.status = Failed /\ Written("all_failed", compound_name)]_vars

\* ------------------------------------------------------------ termination
\* C31: for every input table, with every request ending in a reply or a
\* timeout, each Resolver invocation returns, the run ends, and it ends with
\* the full-result table and, after it, the clean-result table written.
C31_Terminates ==
  /\ ValidTable(Len(file.table.rows)) =>
       <>(pc = "end" /\ full_written /\ clean_written)
  /\ (pc = "call" /\ rpc = "for") ~> (pc = "call" /\ rpc = "returned")
  /\ [](clean_written => full_written)

\* ------------------------------------------------------------ what a step may change
\* Sequence a is a prefix of sequence b.
Prefix(a, b) == Len(a) <= Len(b) /\ SubSeq(b, 1, Len(a)) = a

\* The step is taken inside get_cid_and_smiles.
ResolverStep == pc = "call" /\ rpc \in {"for", "cid", "smiles"}

\* C32: a step of the Resolver leaves the result list, the counters and the
\* list of failed names as they are and only appends to the log; every step of
\* the run keeps the rows of the result list and the lines of the log and does
\* not decrease a counter.
C32_AppendOnly ==
  [][/\ ResolverStep =>
          /\ results' = results
          /\ success_count' = success_count
          /\ failed_count' = failed_count
          /\ failed_compounds' = failed_compounds
          /\ df_input' = df_input
          /\ index' = index
     /\ Prefix(results, results')
     /\ Prefix(log, log')
     /\ Prefix(failed_compounds, failed_compounds')
     /\ success_count' >= success_count
     /\ failed_count' >= failed_count]_vars

\* C32 witness: the second record's row has been appended behind the first
\* one's, one of them counted as a success and one as a failure.
C32_Witness ==
  /\ pc = "sleep"
  /\ Len(results) = 2
  /\ success_count = 1
  /\ failed_count = 1
  /\ Len(failed_compounds) = 1

\* ------------------------------------------------------------ independence of the records
\* The candidates of name t, by the rule of the Name Normalizer.
CandidatesOf(t) == IF Expanded(t) = t THEN <<t>> ELSE <<t, Expanded(t)>>

\* The name of the record being resolved.
OwnName == NameOf(df_input.rows[index + 1]).s

\* The tuple determined by the replies to the lookups of one invocation: the
\* last lookup decides.
Determined(lookups) ==
  LET last == lookups[Len(lookups)]
  IN  IF lookups # <<>> /\ last.op = "smiles" /\ last.reply.kind = "json"
         /\ last.reply.vals # <<>>
      THEN Result(last.arg, last.reply.vals[1],
                  IF last.cand = 0 THEN SuccessOriginal ELSE SuccessVariant)
      ELSE Result(PyNone, PyNone, Failed)

\* C33: what the Resolver asks and returns for a record is determined by the
\* record's own name and the replies to its own lookups, whatever records were
\* resolved before it and however they ended: the names looked up are the
\* candidates of its own name, and the tuple returned is the one its own replies
\* determine.
C33_OwnNameOwnReplies ==
  pc = "call" =>
    /\ compound_name = OwnName
    /\ names_to_try = CandidatesOf(Trimmed(OwnName))
    /\ \A a \in 1..Len(calls) :
         /\ calls[a].cand < Len(CandidatesOf(Trimmed(OwnName)))
         /\ calls[a].op = "cid" =>
              calls[a].arg = PyStr(CandidatesOf(Trimmed(OwnName))[calls[a].cand + 1])
    /\ rpc = "returned" => ret = Determined(calls)

\* C33 witness: the second record, named unlike the first, has been resolved
\* after the first one had ended Failed.
C33_Witness ==
  /\ ReturnedSuccess
  /\ index = 1
  /\ results[1]["Status"] = PyStr(Failed)
  /\ results[1]["Name"] # PyStr(compound_name)
  /\ ret = Determined(calls)
  /\ failed_count = 1

\* ------------------------------------------------------------ the outcome and the Greek letters
\* Name s holds one of the Greek letters the Name Normalizer spells out.
HasGreek(s) == \E k \in 1..Len(s) : s[k] \in {"α", "β", "γ"}

\* The attempt with the original name was made and gave no result: its name
\* lookup was sent and no structure came back for it.
OriginalFailed == HasCall("cid", 0) /\ ~Answers("smiles", 0)

\* C34: an invocation ends SuccessVariant only for a name that holds α, β or γ
\* and only after the attempt with the original name failed; for a name without
\* these letters it ends SuccessOriginal or Failed only.
C34_VariantOnlyAfterOriginal ==
  (pc = "call" /\ rpc = "returned") =>
    /\ ret.status \in {SuccessOriginal, SuccessVariant, Failed}
    /\ ret.status = SuccessVariant => HasGreek(compound_name) /\ OriginalFailed
    /\ ~HasGreek(compound_name) => ret.status \in {SuccessOriginal, Failed}

\* C34 witness: a name with a Greek letter ended SuccessVariant after the lookup
\* of the original name had failed.
C34_Witness ==
  /\ pc = "call" /\ rpc = "returned"
  /\ ret.status = SuccessVariant
  /\ HasGreek(compound_name)
  /\ OriginalFailed
  /\ Len(names_to_try) = 2

\* ------------------------------------------------------------ the session run again
\* The cells are being executed again after a run that produced its results:
\* df_results exists, and the new results folder holds no full-result table.
RunAgain == has_results /\ ~full_written

\* C35: in a session run again after a successful run, a run whose input
\* validation fails or whose input is empty writes no clean-result table and no
\* final statistics, and quality control does not fail.
C35_NothingLeftOver ==
  RunAgain =>
    /\ ~clean_written
    /\ ~Logged("final_statistics")
    /\ pc # "crashed"

\* ------------------------------------------------------------ the counts of quality control
\* C36: at the end of quality control, final clean count <= initial successful
\* count = the summary's succeeded count <= total input records, and the removed
\* count that is reported is initial - final >= 0.
C36_Counts ==
  (pc = "end" /\ clean_written) =>
    /\ final_count <= initial_count
    /\ initial_count = success_count
    /\ LoggedAs("sum_successful", PyInt(initial_count))
    /\ LoggedAs("qc_initial", PyInt(initial_count))
    /\ LoggedAs("qc_final", PyInt(final_count))
    /\ success_count <= Len(df_input.rows)
    /\ LoggedAs("qc_removed", PyInt(initial_count - final_count))

\* ------------------------------------------------------------ the variant, normalized again
\* The normalized variant of the raw name the candidate list was built for:
\* the list's last element (the trimmed name itself when nothing was replaced).
Variant == names_to_try[Len(names_to_try)]

\* C37: the normalized variant holds none of α, β, γ; the candidate list built
\* for the variant is the variant alone; and no candidate list has more than
\* two elements.
C37_VariantIsFixedPoint ==
  Normalized =>
    /\ ~HasGreek(Variant)
    /\ NamesToTry(Variant) = <<Variant>>
    /\ Len(names_to_try) <= 2

\* C37 witness: a padded name with two Greek letters got two candidates, and
\* its variant, normalized again, gives itself alone.
C37_Witness ==
  /\ Normalized
  /\ compound_name = <<" ", "β", "γ">>
  /\ names_to_try = <<<<"β", "γ">>, beta \o gamma>>
  /\ NamesToTry(Variant) = <<beta \o gamma>>

====
